---- MODULE Spec2Model ----
(***************************************************************************)
(* Model of the conversational assistant of the wishlist tracker:          *)
(*   - the Conversation Session (React hook useAIAssistant, NDJSON         *)
(*     variant) with its stream read loop,                                 *)
(*   - the Similarity Engine (lib/utils/similarity.ts),                    *)
(*   - the Tool Registry (lib/ai/tools.ts) over the items table.           *)
(* Strings are sequences of one-character strings, so that trimming,       *)
(* lower-casing, splitting and edit distance are computed, not assumed.    *)
(***************************************************************************)
EXTENDS Integers, Sequences, FiniteSets, TLC

VARIABLES
    messages,     \* useState<Message[]>: the committed message log
    input,        \* useState(''): the committed draft
    isStreaming,  \* useState(false): the committed streaming flag
    rendered,     \* the values the current sendMessage closure captured
    turns,        \* one record per accepted sendMessage invocation
    now,          \* the value Date.now() returned last (the clock never goes back)
    notified,     \* number of onItemModified() calls so far
    closed,       \* history: clearMessages ran with a turn in flight, no submit since
    items,        \* the items table (rows of every user)
    nextId,       \* next primary key / creation stamp the table hands out
    lastCall,     \* history: the latest call on the table and what it returned
    prevToggle,   \* history: the toggleItem call that came last, if it toggled
    request,      \* the request POST /api/ai/chat is handling, and how far it got
    handle,       \* the module state of lib/db (connection, db) and its callers
    calls         \* the tool calls that run at the same time, and how far each got

vars == <<messages, input, isStreaming, rendered, turns, now, notified, closed,
          items, nextId, lastCall, prevToggle, request, handle, calls>>

sessionVars == <<messages, input, isStreaming, rendered, turns, now, notified, closed>>
toolVars == <<items, nextId, lastCall, prevToggle>>
serverVars == <<request, handle, calls>>

----------------------------------------------------------------------------
(* Bounds *)

\* sendMessage invocations accepted in a run of the session
MaxTurns == 2
\* last value Date.now() takes
MaxClock == 2
\* frames in one response of the session specification
MaxTurnFrames == 1
\* frames in one response of the decoder specification
MaxFrames == 2
\* units one reader.read() delivers at most
MaxChunk == 3
\* rows of the items table
MaxItems == 2
\* characters of a string handed to calculateSimilarity
MaxLen == 2
\* candidates handed to findBestMatch
MaxCandidates == 3
\* connections postgres() creates in a run of the process
MaxConnections == 3
\* closeDb calls suspended at the same time
MaxClosers == 2
\* tool calls that run at the same time
MaxCalls == 2

----------------------------------------------------------------------------
(* Strings *)

IsSpace(c) == c = " "

RECURSIVE TrimStart(_)
TrimStart(s) ==
    IF s # <<>> /\ IsSpace(Head(s)) THEN TrimStart(Tail(s)) ELSE s

RECURSIVE TrimEnd(_)
TrimEnd(s) ==
    IF s # <<>> /\ IsSpace(s[Len(s)]) THEN TrimEnd(SubSeq(s, 1, Len(s) - 1)) ELSE s

\* String.prototype.trim
Trim(s) == TrimEnd(TrimStart(s))

\* String.prototype.includes: s occurs in t as a run of consecutive characters
Contains(t, s) == \E k \in 0..(Len(t) - Len(s)) : SubSeq(t, k + 1, k + Len(s)) = s

SeqsUpTo(S, n) == UNION {[1..k -> S] : k \in 0..n}

----------------------------------------------------------------------------
(* Stream frames and their wire form.  A frame is one JSON object per line *)
(* (types text-delta, tool-call, tool-result as read by the hook).  The    *)
(* wire is a sequence of units; the two-unit character "e'" (C3 A9) makes  *)
(* a read boundary inside a character possible.                            *)

NoFrame ==
    [type |-> "", text |-> <<>>, toolName |-> "", toolCallId |-> "", success |-> FALSE,
     items |-> <<>>, message |-> <<>>]

TextDelta(t) == [NoFrame EXCEPT !.type = "text-delta", !.text = t]

ToolCall(n) == [NoFrame EXCEPT !.type = "tool-call", !.toolName = n]

ToolResult(n, ok, m) ==
    [NoFrame EXCEPT !.type = "tool-result", !.toolName = n, !.success = ok, !.message = m]

\* a frame with the toolCallId of its call, and with output.data.items if it has any
Invocation(f, toolCallId, its) == [f EXCEPT !.toolCallId = toolCallId, !.items = its]

\* a frame of fullStream that the hook has no branch for
ErrorFrame == [NoFrame EXCEPT !.type = "error"]

\* a line cut short by the transport
Malformed == [NoFrame EXCEPT !.type = "malformed"]

Frames ==
    { TextDelta(<<"a">>), TextDelta(<<"e'">>), ToolCall("addItem"),
      ToolResult("addItem", TRUE, <<"m">>), ToolResult("toggleItem", FALSE, <<"n">>) }

Streams == SeqsUpTo(Frames, MaxFrames)

TurnFrames == { TextDelta(<<"a">>), ToolResult("addItem", TRUE, <<"m">>) }

TurnStreams == SeqsUpTo(TurnFrames, MaxTurnFrames)

RECURSIVE Utf8(_)
Utf8(s) ==
    IF s = <<>> THEN <<>>
    ELSE (IF Head(s) = "e'" THEN <<"C3", "A9">> ELSE <<Head(s)>>) \o Utf8(Tail(s))

\* the keys toolCallId and items of a frame, left out when they hold nothing
Keys(f) ==
    (IF f.toolCallId = "" THEN <<>> ELSE <<"toolCallId", f.toolCallId>>)
    \o (IF f.items = <<>> THEN <<>> ELSE <<"items", "[">> \o f.items \o <<"]">>)

\* JSON.stringify(part) as the server writes it, one object per line
Encode(f) ==
    IF f.type = "malformed" THEN <<"{", "text-delta">>
    ELSE <<"{", f.type>>
         \o (CASE f.type = "text-delta" -> Utf8(f.text)
               [] f.type = "tool-call" -> <<f.toolName>> \o Keys(f)
               [] f.type = "tool-result" ->
                     <<f.toolName, IF f.success THEN "true" ELSE "false">> \o Keys(f)
                     \o Utf8(f.message)
               [] OTHER -> <<>>)
         \o <<"}">>

RECURSIVE Wire(_)
Wire(fs) == IF fs = <<>> THEN <<>> ELSE Encode(Head(fs)) \o <<"\n">> \o Wire(Tail(fs))

\* decoder.decode(value, { stream: true }): an incomplete character is held back
RECURSIVE TextDecode(_, _, _)
TextDecode(pend, bytes, out) ==
    IF bytes = <<>> THEN [out |-> out, pend |-> pend]
    ELSE LET b == Head(bytes) IN
         IF pend # <<>>
         THEN IF b = "A9" THEN TextDecode(<<>>, Tail(bytes), Append(out, "e'"))
              ELSE TextDecode(<<>>, bytes, Append(out, "?"))
         ELSE IF b = "C3" THEN TextDecode(<<b>>, Tail(bytes), out)
              ELSE IF b = "A9" THEN TextDecode(<<>>, Tail(bytes), Append(out, "?"))
              ELSE TextDecode(<<>>, Tail(bytes), Append(out, b))

\* buffer.split('\n'): always at least one element, the last one unterminated
RECURSIVE Split(_, _, _)
Split(s, cur, acc) ==
    IF s = <<>> THEN Append(acc, cur)
    ELSE IF Head(s) = "\n" THEN Split(Tail(s), <<>>, Append(acc, cur))
         ELSE Split(Tail(s), Append(cur, Head(s)), acc)

Structural == {"{", "}", "\n"}

\* the keys toolCallId and items read from the units u, and the units after them
ParseKeys(u) ==
    LET id == IF Len(u) >= 2 /\ u[1] = "toolCallId" THEN u[2] ELSE ""
        v == IF id = "" THEN u ELSE SubSeq(u, 3, Len(u))
        listed == Len(v) >= 2 /\ v[1] = "items" /\ v[2] = "["
                  /\ \E k \in 3..Len(v) : v[k] = "]"
        end == IF listed THEN CHOOSE k \in 3..Len(v) :
                                  v[k] = "]" /\ \A j \in 3..(k - 1) : v[j] # "]"
               ELSE 0
    IN  [toolCallId |-> id,
         items |-> IF listed THEN SubSeq(v, 3, end - 1) ELSE <<>>,
         rest |-> IF listed THEN SubSeq(v, end + 1, Len(v)) ELSE v]

\* JSON.parse(line): ok is FALSE where JSON.parse throws
JSONParse(line) ==
    LET n == Len(line)
        inner == SubSeq(line, 2, n - 1)
        bad == [ok |-> FALSE, part |-> NoFrame]
    IN  IF n < 2 \/ line[1] # "{" \/ line[n] # "}" THEN bad
        ELSE IF \E i \in 1..Len(inner) : inner[i] \in Structural THEN bad
        ELSE IF inner = <<>> THEN [ok |-> TRUE, part |-> NoFrame]
        ELSE IF inner[1] = "text-delta"
             THEN [ok |-> TRUE, part |-> TextDelta(Tail(inner))]
        ELSE IF inner[1] = "error" /\ Len(inner) = 1
             THEN [ok |-> TRUE, part |-> ErrorFrame]
        ELSE IF inner[1] = "tool-call" /\ Len(inner) >= 2
                /\ ParseKeys(SubSeq(inner, 3, Len(inner))).rest = <<>>
             THEN LET keys == ParseKeys(SubSeq(inner, 3, Len(inner)))
                  IN  [ok |-> TRUE,
                       part |-> Invocation(ToolCall(inner[2]), keys.toolCallId, keys.items)]
        ELSE IF inner[1] = "tool-result" /\ Len(inner) >= 3 /\ inner[3] \in {"true", "false"}
             THEN LET keys == ParseKeys(SubSeq(inner, 4, Len(inner)))
                  IN  [ok |-> TRUE,
                       part |-> Invocation(ToolResult(inner[2], inner[3] = "true", keys.rest),
                                           keys.toolCallId, keys.items)]
        ELSE bad

----------------------------------------------------------------------------
(* Conversation Session: useAIAssistant(onItemModified), NDJSON variant.   *)
(* State updates reach the committed state at once (every setMessages is a *)
(* functional update); sendMessage reads input, isStreaming and messages   *)
(* from the closure of the last render.  Calls made by the caller in one   *)
(* synchronous task (sendMessage, clearMessages, setInput) share that      *)
(* closure until React renders at the end of the task; a continuation of   *)
(* sendMessage (after an await) runs in a later task, after that render,   *)
(* and its own updates are rendered before the next user event.            *)
(* onItemModified is supplied.                                             *)

Drafts == { <<" ", "h">> }

ErrorText == <<"Sorry, I encountered an error. Please try again.">>

\* toolInvocations is <<>> where the message has none
Message(id, role, content, error) ==
    [id |-> id, role |-> role, content |-> content, error |-> error,
     toolInvocations |-> <<>>]

InFlight(t) == t.pc # "done"

\* prev.map(msg => msg.id === assistantMessage.id ? {...msg, content} : msg)
SetContent(msgs, aid, content) ==
    [j \in 1..Len(msgs) |->
        IF msgs[j].id = aid THEN [msgs[j] EXCEPT !.content = content] ELSE msgs[j]]

\* the body of "for (const line of lines)" for one parsed part
ApplyPart(st, part, aid) ==
    IF part.type = "text-delta"
    THEN LET c == st.content \o part.text
         IN  [st EXCEPT !.content = c, !.msgs = SetContent(st.msgs, aid, c)]
    ELSE IF part.type = "tool-result"
    THEN LET c == IF part.message # <<>> THEN st.content \o part.message ELSE st.content
             m == IF part.message # <<>> THEN SetContent(st.msgs, aid, c) ELSE st.msgs
             n == IF part.toolName \in {"addItem", "toggleItem"} /\ part.success
                  THEN st.notified + 1 ELSE st.notified
         IN  [st EXCEPT !.content = c, !.msgs = m, !.notified = n]
    ELSE st

\* one line of the loop: blank lines are skipped, a JSON.parse error is logged
ApplyLine(st, line, aid) ==
    IF Trim(line) = <<>> THEN st
    ELSE LET r == JSONParse(line)
         IN  IF r.ok THEN [ApplyPart(st, r.part, aid) EXCEPT !.applied = @ + 1]
             ELSE [st EXCEPT !.parseErrors = @ + 1]

RECURSIVE ApplyLines(_, _, _)
ApplyLines(st, lines, aid) ==
    IF lines = <<>> THEN st
    ELSE ApplyLines(ApplyLine(st, Head(lines), aid), Tail(lines), aid)

\* variant: the buffer is emptied after every chunk
DropLast(lines) == <<>>

\* buffer = lines.pop() || ''
KeepLast(lines) == lines[Len(lines)]

\* the lines left in the array after lines.pop()
Complete(lines) == SubSeq(lines, 1, Len(lines) - 1)

\* timer: the setTimeout(onItemAdded, 1000) that handleSubmit of the modal sets
\* right after sendMessage(e), under the same guard and in the same task
NewTurn(text, uid, body, solo, upos) ==
    [pc |-> "fetch", text |-> text, uid |-> uid, body |-> body, aid |-> 0,
     content |-> <<>>, buffer |-> <<>>, pend |-> <<>>, frames |-> <<>>, rest |-> <<>>,
     outcome |-> "none", solo |-> solo, cleared |-> FALSE,
     upos |-> upos, apos |-> 0, applied |-> 0, parseErrors |-> 0, partial |-> FALSE,
     timer |-> "set"]

Snapshot(m, i, s) == [messages |-> m, input |-> i, isStreaming |-> s]

\* the render at the end of the caller's task has happened
Flushed == rendered = Snapshot(messages, input, isStreaming)

\* Date.now(): any value from the last one read onwards
Clock == now..MaxClock

\* variant: the guard without the test of the draft
RejectsStreaming(r) == r.isStreaming

\* the submission guard of sendMessage
Rejects(r) == Trim(r.input) = <<>> \/ r.isStreaming

\* sendMessage up to its first await (the fetch is issued)
sendMessage(maxTurns) ==
    /\ UNCHANGED notified
    /\ UNCHANGED <<toolVars, serverVars>>
    /\ IF Rejects(rendered)
       THEN UNCHANGED <<messages, input, isStreaming, rendered, turns, now, closed>>
       ELSE \E t \in Clock :
            LET userMessage == Message(t, "user", Trim(rendered.input), FALSE)
                hist == Append(rendered.messages, userMessage)
                body == [j \in 1..Len(hist) |->
                            [role |-> hist[j].role, content |-> hist[j].content]]
                alone == \A j \in 1..Len(turns) : ~InFlight(turns[j])
            IN  /\ Len(turns) < maxTurns
                /\ now' = t
                /\ messages' = Append(messages, userMessage)
                /\ input' = <<>>
                /\ isStreaming' = TRUE
                /\ turns' = Append(
                       [j \in 1..Len(turns) |->
                           IF InFlight(turns[j]) THEN [turns[j] EXCEPT !.solo = FALSE]
                           ELSE turns[j]],
                       NewTurn(userMessage.content, userMessage.id, body, alone,
                               Len(messages) + 1))
                /\ closed' = [on |-> FALSE, notified |-> notified]
                /\ UNCHANGED rendered

\* variant: the catch block without the finally block
CatchOnly(i) ==
    /\ \E t \in Clock :
          /\ now' = t
          /\ messages' = Append(messages, Message(t + 1, "assistant", ErrorText, TRUE))
    /\ UNCHANGED isStreaming
    /\ turns' = [turns EXCEPT ![i].pc = "done", ![i].outcome = "error"]

\* catch (error) { setMessages(prev => [...prev, errorMessage]) } finally { ... }
CatchFinally(i) ==
    /\ \E t \in Clock :
          /\ now' = t
          /\ messages' = Append(messages, Message(t + 1, "assistant", ErrorText, TRUE))
    /\ isStreaming' = FALSE
    /\ turns' = [turns EXCEPT ![i].pc = "done", ![i].outcome = "error"]

\* fetch resolves with response.ok and a body: the assistant message is added
fetchResolve(i, streams) ==
    /\ turns[i].pc = "fetch"
    /\ Flushed
    /\ \E fs \in streams, t \in Clock :
          /\ now' = t
          /\ messages' = Append(messages, Message(t + 1, "assistant", <<>>, FALSE))
          /\ turns' = [turns EXCEPT ![i].pc = "read", ![i].aid = t + 1,
                                    ![i].apos = Len(messages) + 1,
                                    ![i].frames = fs, ![i].rest = Wire(fs)]
    /\ rendered' = Snapshot(messages', input, isStreaming)
    /\ UNCHANGED <<input, isStreaming, notified, closed>>
    /\ UNCHANGED <<toolVars, serverVars>>

\* fetch rejects, or !response.ok, or response.body is missing: each throws into
\* the same catch
fetchFail(i) ==
    /\ turns[i].pc = "fetch"
    /\ Flushed
    /\ CatchFinally(i)
    /\ rendered' = Snapshot(messages', input, isStreaming')
    /\ UNCHANGED <<input, notified, closed>>
    /\ UNCHANGED <<toolVars, serverVars>>

\* one iteration of the read loop: reader.read() yields the next k units
readChunk(i, sizes) ==
    /\ turns[i].pc = "read"
    /\ turns[i].rest # <<>>
    /\ Flushed
    /\ \E k \in sizes :
          /\ k <= Len(turns[i].rest)
          /\ LET t == turns[i]
                 d == TextDecode(t.pend, SubSeq(t.rest, 1, k), <<>>)
                 lines == Split(t.buffer \o d.out, <<>>, <<>>)
                 st0 == [content |-> t.content, msgs |-> messages, notified |-> notified,
                         applied |-> t.applied, parseErrors |-> t.parseErrors]
                 st == ApplyLines(st0, Complete(lines), t.aid)
             IN  /\ messages' = st.msgs
                 /\ notified' = st.notified
                 /\ turns' = [turns EXCEPT ![i].rest = SubSeq(t.rest, k + 1, Len(t.rest)),
                                           ![i].pend = d.pend,
                                           ![i].buffer = KeepLast(lines),
                                           ![i].content = st.content,
                                           ![i].applied = st.applied,
                                           ![i].parseErrors = st.parseErrors,
                                           ![i].partial =
                                               @ \/ KeepLast(lines) # <<>> \/ d.pend # <<>>]
    /\ rendered' = Snapshot(messages', input, isStreaming)
    /\ UNCHANGED <<input, isStreaming, now, closed>>
    /\ UNCHANGED <<toolVars, serverVars>>

\* the length of the first line of the stream, its newline included
LineEnd(rest) ==
    IF \E k \in 1..Len(rest) : rest[k] = "\n"
    THEN CHOOSE k \in 1..Len(rest) : rest[k] = "\n" /\ \A j \in 1..(k - 1) : rest[j] # "\n"
    ELSE Len(rest)

\* variant: the loop is left without the finally block
readBreak(i) ==
    /\ turns[i].pc = "read"
    /\ turns[i].rest = <<>>
    /\ Flushed
    /\ turns' = [turns EXCEPT ![i].pc = "done", ![i].outcome = "ok"]
    /\ UNCHANGED <<messages, input, isStreaming, rendered, now, notified, closed>>
    /\ UNCHANGED <<toolVars, serverVars>>

\* reader.read() yields done: break, then finally
readDone(i) ==
    /\ turns[i].pc = "read"
    /\ turns[i].rest = <<>>
    /\ Flushed
    /\ isStreaming' = FALSE
    /\ turns' = [turns EXCEPT ![i].pc = "done", ![i].outcome = "ok"]
    /\ rendered' = Snapshot(messages, input, FALSE)
    /\ UNCHANGED <<messages, input, now, notified, closed>>
    /\ UNCHANGED <<toolVars, serverVars>>

\* reader.read() rejects
readFail(i) ==
    /\ turns[i].pc = "read"
    /\ Flushed
    /\ CatchFinally(i)
    /\ rendered' = Snapshot(messages', input, isStreaming')
    /\ UNCHANGED <<input, notified, closed>>
    /\ UNCHANGED <<toolVars, serverVars>>

\* the timer of handleSubmit runs out: onItemAdded() is called, in a task of its
\* own; nothing cancels the timer (not clearMessages, not closing the modal)
onItemAddedTimer(i) ==
    /\ turns[i].timer = "set"
    /\ turns' = [turns EXCEPT ![i].timer = "fired"]
    /\ UNCHANGED <<messages, input, isStreaming, rendered, now, notified, closed>>
    /\ UNCHANGED <<toolVars, serverVars>>

\* clearMessages, as called by the modal's handleClose
clearMessages ==
    /\ messages' = <<>>
    /\ turns' = [j \in 1..Len(turns) |-> [turns[j] EXCEPT !.cleared = TRUE, !.apos = 0]]
    /\ closed' = IF \E j \in 1..Len(turns) : InFlight(turns[j])
                 THEN [on |-> TRUE, notified |-> notified]
                 ELSE closed
    /\ UNCHANGED <<input, isStreaming, rendered, now, notified>>
    /\ UNCHANGED <<toolVars, serverVars>>

handleSetInput ==
    /\ \E v \in Drafts : input' = v
    /\ UNCHANGED <<messages, isStreaming, rendered, turns, now, notified, closed>>
    /\ UNCHANGED <<toolVars, serverVars>>

\* React renders at the end of the task: the next closure sees the committed state
render ==
    /\ ~Flushed
    /\ rendered' = Snapshot(messages, input, isStreaming)
    /\ UNCHANGED <<messages, input, isStreaming, turns, now, notified, closed>>
    /\ UNCHANGED <<toolVars, serverVars>>

NoCall == [tool |-> "none"]

NoRequest == [pc |-> "none"]

\* what getDb returned last
NoHandle == [db |-> 0, created |-> FALSE, openBefore |-> {}, ending |-> FALSE]

\* let connection = null, let db = null; no connection was ever made
Unconnected(url) ==
    [url |-> url, connection |-> 0, db |-> 0, open |-> {}, ending |-> {},
     closers |-> <<>>, made |-> 0, got |-> NoHandle]

\* a tool call that has not started
NotStarted == [pc |-> "idle"]

\* no request reaches the server, nothing has asked for the store, no tool runs
InitServer ==
    /\ request = NoRequest
    /\ handle = Unconnected(TRUE)
    /\ calls = [p \in 1..MaxCalls |-> NotStarted]

InitTools ==
    /\ items = <<>>
    /\ nextId = 1
    /\ lastCall = NoCall
    /\ prevToggle = NoCall

InitSession ==
    /\ messages = <<>>
    /\ input = <<>>
    /\ isStreaming = FALSE
    /\ rendered = Snapshot(<<>>, <<>>, FALSE)
    /\ turns = <<>>
    /\ now = 1
    /\ notified = 0
    /\ closed = [on |-> FALSE, notified |-> 0]

Init == InitSession /\ InitTools /\ InitServer

Next ==
    \/ sendMessage(MaxTurns)
    \/ \E i \in 1..Len(turns) : fetchResolve(i, TurnStreams)
    \/ \E i \in 1..Len(turns) : fetchFail(i)
    \/ \E i \in 1..Len(turns) : readChunk(i, {LineEnd(turns[i].rest)})
    \/ \E i \in 1..Len(turns) : readDone(i)
    \/ \E i \in 1..Len(turns) : readFail(i)
    \/ clearMessages
    \/ handleSetInput
    \/ render

Spec == Init /\ [][Next]_vars

(* The session whose transport completes or errors: the request of a turn *)
(* in flight is answered or fails, and a response that is being read ends *)
(* or fails.  A continuation of sendMessage waits for no user event, so    *)
(* these steps are taken however often the draft changes in between.       *)

\* the transport of turn i completes or errors: fetch settles, read() ends or rejects
Completes(i) ==
    \/ fetchResolve(i, TurnStreams)
    \/ fetchFail(i)
    \/ readDone(i)
    \/ readFail(i)

SpecLive ==
    /\ Spec
    /\ WF_vars(render)
    /\ \A i \in 1..MaxTurns : SF_vars(i <= Len(turns) /\ Completes(i))

(* The decoder alone: one turn, submitted from a rendered draft, whose     *)
(* response is any stream of frames delivered in any chunking.             *)

InitDecoder ==
    /\ InitTools
    /\ InitServer
    /\ messages = <<>>
    /\ input \in Drafts \cup {<<" ">>}
    /\ isStreaming = FALSE
    /\ rendered = Snapshot(<<>>, input, FALSE)
    /\ turns = <<>>
    /\ now \in 1..MaxClock
    /\ notified = 0
    /\ closed = [on |-> FALSE, notified |-> 0]

NextDecoder ==
    \/ sendMessage(1)
    \/ render
    \/ \E i \in 1..Len(turns) : fetchResolve(i, Streams)
    \/ \E i \in 1..Len(turns) : readChunk(i, 1..MaxChunk)
    \/ \E i \in 1..Len(turns) : readDone(i)
    \/ \E i \in 1..Len(turns) : readFail(i)

SpecDecoder == InitDecoder /\ [][NextDecoder]_vars

(* One turn whose response holds the frames of tool invocations (with their *)
(* toolCallId and the items a listItems result carries), a frame the hook  *)
(* has no branch for and a line that is not JSON, read a line at a time.   *)

ResultFrames ==
    { TextDelta(<<"a">>),
      Invocation(ToolCall("listItems"), "c1", <<>>),
      Invocation(ToolResult("listItems", TRUE, <<"m">>), "c1", <<"Dune">>),
      Invocation(ToolResult("addItem", TRUE, <<"m">>), "c2", <<>>),
      Invocation(ToolResult("toggleItem", FALSE, <<"n">>), "c3", <<>>),
      ErrorFrame,
      Malformed }

NextFrames ==
    \/ sendMessage(1)
    \/ render
    \/ \E i \in 1..Len(turns) : fetchResolve(i, SeqsUpTo(ResultFrames, MaxFrames))
    \/ \E i \in 1..Len(turns) : readChunk(i, {LineEnd(turns[i].rest)})
    \/ \E i \in 1..Len(turns) : readDone(i)
    \/ \E i \in 1..Len(turns) : readFail(i)

SpecFrames == InitDecoder /\ [][NextFrames]_vars

(* The same turn submitted through the form of the modal              *)
(* (AIAssistantModal.handleSubmit), with onItemAdded supplied.        *)

NextModal ==
    \/ NextFrames
    \/ \E i \in 1..Len(turns) : onItemAddedTimer(i)

SpecModal == InitDecoder /\ [][NextModal]_vars

----------------------------------------------------------------------------
(* Similarity Engine (lib/utils/similarity.ts).  A score is kept as the    *)
(* exact fraction num/den it is computed from; the thresholds 0.8 and 0.6  *)
(* and the quotients involved are such that the comparison of the doubles  *)
(* agrees with the comparison of the fractions.                            *)

Uppers == <<"A", "B", "C", "D", "E", "F", "G", "H", "I", "J", "K", "L", "M",
            "N", "O", "P", "Q", "R", "S", "T", "U", "V", "W", "X", "Y", "Z">>

Lowers == <<"a", "b", "c", "d", "e", "f", "g", "h", "i", "j", "k", "l", "m",
            "n", "o", "p", "q", "r", "s", "t", "u", "v", "w", "x", "y", "z">>

LowerChar(c) ==
    IF \E k \in 1..Len(Uppers) : Uppers[k] = c
    THEN Lowers[CHOOSE k \in 1..Len(Uppers) : Uppers[k] = c]
    ELSE c

\* String.prototype.toLowerCase
ToLowerCase(s) == [k \in 1..Len(s) |-> LowerChar(s[k])]

Min2(a, b) == IF a <= b THEN a ELSE b

\* variant: the length of the first string instead of the longer one
First2(a, b) == a

Max2(a, b) == IF a >= b THEN a ELSE b

\* row i of the matrix from row i - 1: prev[j + 1] is matrix[i - 1][j]
RECURSIVE FillRow(_, _, _, _, _)
FillRow(str1, str2, i, prev, cur) ==
    LET j == Len(cur)
    IN  IF j > Len(str2) THEN cur
        ELSE LET cost == IF str1[i] = str2[j] THEN 0 ELSE 1
                 cell == Min2(Min2(prev[j + 1] + 1, cur[j] + 1), prev[j] + cost)
             IN  FillRow(str1, str2, i, prev, Append(cur, cell))

\* rows 1..len1, each completed before the next one is started
RECURSIVE FillMatrix(_, _, _, _)
FillMatrix(str1, str2, i, prev) ==
    IF i > Len(str1) THEN prev
    ELSE LET row == FillRow(str1, str2, i, prev, <<i>>)
         IN  IF Len(row) > 0 THEN FillMatrix(str1, str2, i + 1, row) ELSE row

levenshteinDistance(str1, str2) ==
    FillMatrix(str1, str2, 1, [j \in 1..(Len(str2) + 1) |-> j - 1])[Len(str2) + 1]

Score(n, d) == [num |-> n, den |-> d]

calculateSimilarity(str1, str2) ==
    IF str1 = <<>> \/ str2 = <<>> THEN Score(0, 1)
    ELSE LET normalized1 == Trim(ToLowerCase(str1))
             normalized2 == Trim(ToLowerCase(str2))
             maxLen == Max2(Len(normalized1), Len(normalized2))
         IN  IF normalized1 = normalized2 THEN Score(1, 1)
             ELSE IF maxLen = 0 THEN Score(1, 1)
             ELSE Score(maxLen - levenshteinDistance(normalized1, normalized2), maxLen)

\* a > b and a >= b on scores
ScoreGt(a, b) == a.num * b.den > b.num * a.den

ScoreGeq(a, b) == a.num * b.den >= b.num * a.den

\* the strings of the model
Dune1 ==
    <<"W", "a", "t", "c", "h", " ", "D", "u", "n", "e", " ",
      "P", "a", "r", "t", " ", "T", "w", "o">>

Dune2 ==
    <<"W", "a", "t", "c", "h", " ", "D", "u", "n", "e", ":", " ",
      "P", "a", "r", "t", " ", "T", "w", "o">>

JadePalace == <<"J", "a", "d", "e", " ", "P", "a", "l", "a", "c", "e">>

TryJadePalace == <<"T", "r", "y", " ">> \o JadePalace

jade == <<"j", "a", "d", "e">>

Titles == {Dune1, Dune2, TryJadePalace}

Identifiers == {jade, TryJadePalace, Dune1}

\* calculateSimilarity on the strings of the model, evaluated once
SimilarityTable ==
    [p \in (Titles \cup Identifiers) \X (Titles \cup Identifiers) |->
        calculateSimilarity(p[1], p[2])] @@ <<>>

Similarity(str1, str2) ==
    IF <<str1, str2>> \in DOMAIN SimilarityTable
    THEN SimilarityTable[<<str1, str2>>]
    ELSE calculateSimilarity(str1, str2)

NoItem == [id |-> 0]

\* variant: a candidate that ties with the running best replaces it
RECURSIVE LastBestLoop(_, _, _, _, _)
LastBestLoop(query, its, threshold, best, bestScore) ==
    IF its = <<>> THEN best
    ELSE LET item == Head(its)
             itemScore == Similarity(query, item.title)
         IN  IF ScoreGeq(itemScore, bestScore) /\ ScoreGt(itemScore, Score(0, 1))
                /\ ScoreGeq(itemScore, threshold)
             THEN LastBestLoop(query, Tail(its), threshold, item, itemScore)
             ELSE LastBestLoop(query, Tail(its), threshold, best, bestScore)

RECURSIVE BestMatchLoop(_, _, _, _, _)
BestMatchLoop(query, its, threshold, bestMatch, bestScore) ==
    IF its = <<>> THEN bestMatch
    ELSE LET item == Head(its)
             score == Similarity(query, item.title)
         IN  IF ScoreGt(score, bestScore) /\ ScoreGeq(score, threshold)
             THEN BestMatchLoop(query, Tail(its), threshold, item, score)
             ELSE BestMatchLoop(query, Tail(its), threshold, bestMatch, bestScore)

\* returns NoItem for null
findBestMatch(query, its, threshold) ==
    IF its = <<>> THEN NoItem
    ELSE BestMatchLoop(query, its, threshold, NoItem, Score(0, 1))

\* variant: the scan stops at the first item above the threshold
RECURSIVE findFirstSimilar(_, _, _)
findFirstSimilar(title, its, threshold) ==
    IF its = <<>> THEN <<>>
    ELSE IF ScoreGeq(Similarity(title, Head(its).title), threshold)
         THEN <<Head(its)>>
         ELSE findFirstSimilar(title, Tail(its), threshold)

RECURSIVE findSimilarItems(_, _, _)
findSimilarItems(title, its, threshold) ==
    IF its = <<>> THEN <<>>
    ELSE LET rest == findSimilarItems(title, Tail(its), threshold)
         IN  IF ScoreGeq(Similarity(title, Head(its).title), threshold)
             THEN <<Head(its)>> \o rest
             ELSE rest

(* The functions of the engine on inputs of their own: a call is drawn by *)
(* the initial state and the one step evaluates it.                        *)

Alphabet == {"a", "b", "B", " "}

Strings == SeqsUpTo(Alphabet, MaxLen)

\* a call of calculateSimilarity that has not returned yet
Scoring(str1, str2) ==
    [tool |-> "calculateSimilarity", str1 |-> str1, str2 |-> str2,
     done |-> FALSE, score |-> Score(0, 1)]

InitSimilarity ==
    /\ InitSession
    /\ InitServer
    /\ items = <<>>
    /\ nextId = 1
    /\ prevToggle = NoCall
    /\ lastCall \in {Scoring(str1, str2) : str1 \in Strings, str2 \in Strings}

calculate ==
    /\ ~lastCall.done
    /\ lastCall' = [lastCall EXCEPT !.done = TRUE,
                                    !.score = calculateSimilarity(lastCall.str1, lastCall.str2)]
    /\ UNCHANGED <<items, nextId, prevToggle>>
    /\ UNCHANGED <<sessionVars, serverVars>>

NextSimilarity == calculate

SpecSimilarity == InitSimilarity /\ [][NextSimilarity]_vars

\* titles of candidates: against the query "ab" they score 1, 1, 1/2, 1/2 and 0
CandidateTitles == { <<"a", "b">>, <<"A", "B">>, <<"a">>, <<"b">>, <<>> }

\* the candidate lists: the id of a candidate is its place in the list
CandidateLists ==
    {[k \in 1..Len(ts) |-> [id |-> k, title |-> ts[k]]] : ts \in SeqsUpTo(CandidateTitles, MaxCandidates)}

Thresholds == {Score(0, 1), Score(1, 2), Score(6, 10), Score(1, 1)}

\* a call of findBestMatch that has not returned yet
Matching3(query, candidates, threshold) ==
    [tool |-> "findBestMatch", query |-> query, candidates |-> candidates,
     threshold |-> threshold, done |-> FALSE, match |-> NoItem]

InitBestMatch ==
    /\ InitSession
    /\ InitServer
    /\ items = <<>>
    /\ nextId = 1
    /\ prevToggle = NoCall
    /\ lastCall \in {Matching3(<<"a", "b">>, candidates, threshold) :
                        candidates \in CandidateLists, threshold \in Thresholds}

findMatch ==
    /\ ~lastCall.done
    /\ lastCall' = [lastCall EXCEPT
                       !.done = TRUE,
                       !.match = findBestMatch(lastCall.query, lastCall.candidates,
                                               lastCall.threshold)]
    /\ UNCHANGED <<items, nextId, prevToggle>>
    /\ UNCHANGED <<sessionVars, serverVars>>

NextBestMatch == findMatch

SpecBestMatch == InitBestMatch /\ [][NextBestMatch]_vars

----------------------------------------------------------------------------
(* Tool Registry (lib/ai/tools.ts) over the items table.  The table keeps  *)
(* its rows in creation order; ids and creation stamps come from nextId.   *)
(* A tool runs as one step.  fault names the store operation that throws   *)
(* in this call, if it is reached.                                         *)

Users == {"u1", "u2"}

Categories == {"movies", "restaurants"}

Statuses == {"todo", "done"}

Absent == "(absent)"

DuplicateThreshold == Score(8, 10)

MatchThreshold == Score(6, 10)

\* null, and the empty string where the code only tests for falsiness
Null == <<>>

Row(id, userId, categoryId, title, status) ==
    [id |-> id, userId |-> userId, categoryId |-> categoryId, title |-> title,
     status |-> status, createdAt |-> id, description |-> Null, location |-> Null]

Reverse(s) == [k \in 1..Len(s) |-> s[Len(s) + 1 - k]]

ToolResult4(success, data, message, error) ==
    [success |-> success, data |-> data, message |-> message, error |-> error]

Call(tool, result) == [tool |-> tool, result |-> result]

\* variant: the catch block without the error field
CaughtBare(message) ==
    ToolResult4(FALSE, [kind |-> "null"], <<message>>, Absent)

\* variant: the catch block reports a success
CaughtQuiet(message) ==
    ToolResult4(TRUE, [kind |-> "null"], <<message>>, Absent)

\* the catch block of a tool: getDb() and every store call are inside the try
Caught(message) ==
    ToolResult4(FALSE, [kind |-> "null"], <<message>>, "error.message")

\* similarItems.map(i => `"${i.title}"`).join(', ')
RECURSIVE QuotedTitles(_)
QuotedTitles(its) ==
    IF its = <<>> THEN <<>>
    ELSE <<"\"">> \o Head(its).title \o <<"\"">>
         \o (IF Tail(its) = <<>> THEN <<>> ELSE <<", ">> \o QuotedTitles(Tail(its)))

\* POST /api/items with a description and a location (Null when not sent)
POSTItem(userId, titles, description, location) ==
    /\ Len(items) < MaxItems
    /\ \E title \in titles, categoryId \in Categories, status \in Statuses :
          /\ items' = Append(items,
                 [Row(nextId, userId, categoryId, Trim(title), status)
                    EXCEPT !.description = Trim(description), !.location = Trim(location)])
          /\ lastCall' = Call("POST", ToolResult4(TRUE, [kind |-> "itemId", itemId |-> nextId],
                                                 <<>>, Absent))
    /\ nextId' = nextId + 1
    /\ UNCHANGED <<sessionVars, serverVars>>

\* POST /api/items: an insert without the duplicate check
POST(userId) == POSTItem(userId, Titles, Null, Null)

\* the rows the duplicate check of addItem selects
ExistingItems(rows, userId, categoryId) ==
    SelectSeq(rows, LAMBDA r : r.userId = userId /\ r.categoryId = categoryId
                               /\ r.status = "todo")

\* createTools(userId).addItem.execute({title, categoryId}) on the rows of the
\* table, id being the key the insert hands out: the rows left and the ToolResult
addItemExecute(rows, id, userId, title, categoryId, fault) ==
    LET similarItems == findSimilarItems(title, ExistingItems(rows, userId, categoryId),
                                         DuplicateThreshold)
        failed == Caught("Sorry, I encountered an error adding that item. Please try again.")
    IN  IF fault = "select"
        THEN [rows |-> rows, result |-> failed]
        ELSE IF similarItems # <<>>
        THEN [rows |-> rows,
              result |-> ToolResult4(FALSE,
                  [kind |-> "similarItems",
                   similarItems |-> [k \in 1..Len(similarItems) |->
                       [id |-> similarItems[k].id, title |-> similarItems[k].title]]],
                  <<"I found similar items already in your wishlist: ">>
                      \o QuotedTitles(similarItems)
                      \o <<". Did you mean one of these, or would you like to add this as a new item?">>,
                  "Potential duplicate detected")]
        ELSE IF fault \in {"action", "insert"}
        THEN [rows |-> rows, result |-> failed]
        ELSE [rows |-> Append(rows, Row(id, userId, categoryId, title, "todo")),
              result |-> ToolResult4(TRUE, [kind |-> "itemId", itemId |-> id],
                  <<"Added \"">> \o title \o <<"\" to your wishlist!">>, Absent)]

\* a call of the addItem tool that createTools(userId) built
addItem(userId, title, categoryId, fault) ==
    LET done == addItemExecute(items, nextId, userId, title, categoryId, fault)
    IN  /\ UNCHANGED <<sessionVars, serverVars>>
        /\ Len(done.rows) <= MaxItems
        /\ items' = done.rows
        /\ nextId' = IF Len(done.rows) > Len(items) THEN nextId + 1 ELSE nextId
        /\ lastCall' = Call("addItem", done.result)

\* limit || 50
DefaultLimit == 50

\* status || 'todo'
EffectiveStatus(status) == IF status = "" THEN "todo" ELSE status

EffectiveLimit(limit) == IF limit = 0 THEN DefaultLimit ELSE limit

\* .limit(n)
Take(rows, n) == SubSeq(rows, 1, Min2(n, Len(rows)))

\* variant: the select without the condition on the owner
SelectAnyUser(rows, userId, categoryId, effectiveStatus, effectiveLimit) ==
    Take(Reverse(SelectSeq(rows, LAMBDA r :
            /\ (categoryId # "" => r.categoryId = categoryId)
            /\ r.status = effectiveStatus)),
         effectiveLimit)

\* select().from(items).where(and(...conditions)).orderBy(desc(createdAt)).limit(n)
SelectItems(rows, userId, categoryId, effectiveStatus, effectiveLimit) ==
    Take(Reverse(SelectSeq(rows, LAMBDA r :
            /\ r.userId = userId
            /\ (categoryId # "" => r.categoryId = categoryId)
            /\ r.status = effectiveStatus)),
         effectiveLimit)

\* the predicate of result.filter(...) for a lower-cased query
MatchesQuery(item, lowerQuery) ==
    \/ Contains(ToLowerCase(item.title), lowerQuery)
    \/ (item.description # Null /\ Contains(ToLowerCase(item.description), lowerQuery))
    \/ (item.location # Null /\ Contains(ToLowerCase(item.location), lowerQuery))

\* if (query) result = result.filter(...)
TextFilter(result, query) ==
    IF query # <<>>
    THEN SelectSeq(result, LAMBDA item : MatchesQuery(item, ToLowerCase(query)))
    ELSE result

\* result.map(item => ({id, title, categoryId, description, location, status, createdAt}))
FormattedItems(result) ==
    [k \in 1..Len(result) |->
        [id |-> result[k].id, title |-> result[k].title,
         categoryId |-> result[k].categoryId, description |-> result[k].description,
         location |-> result[k].location, status |-> result[k].status,
         createdAt |-> result[k].createdAt]]

\* createTools(userId).listItems.execute({categoryId, status, query, limit}) on the
\* rows of the table; "" and 0 stand for an argument that is not given
listItemsExecute(rows, userId, categoryId, status, query, limit, fault) ==
    LET effectiveStatus == EffectiveStatus(status)
        effectiveLimit == EffectiveLimit(limit)
        result == TextFilter(
                      SelectItems(rows, userId, categoryId, effectiveStatus, effectiveLimit),
                      query)
        formattedItems == FormattedItems(result)
    IN  IF fault = "select"
        THEN Caught("Sorry, I encountered an error fetching your items. Please try again.")
        ELSE IF result = <<>>
        THEN ToolResult4(TRUE, [kind |-> "items", items |-> <<>>, count |-> 0],
                 <<"You don't have any ", effectiveStatus>>
                     \o (IF categoryId # "" THEN <<" items in that category yet.">>
                         ELSE <<" items yet.">>),
                 Absent)
        ELSE ToolResult4(TRUE,
                 [kind |-> "items", items |-> formattedItems, count |-> Len(formattedItems)],
                 <<"You have ", ToString(Len(formattedItems)), " ", effectiveStatus,
                   " item", IF Len(formattedItems) = 1 THEN "" ELSE "s",
                   IF categoryId # "" THEN " in that category" ELSE "", ".">>,
                 Absent)

\* a call of the listItems tool that createTools(userId) built
listItems(userId, categoryId, status, query, limit, fault) ==
    /\ UNCHANGED <<sessionVars, serverVars>>
    /\ UNCHANGED <<items, nextId>>
    /\ lastCall' = Call("listItems",
           listItemsExecute(items, userId, categoryId, status, query, limit, fault))

\* variant: without newStatus the item is marked done
MarkDone(newStatus, match) ==
    IF newStatus # "" THEN newStatus ELSE "done"

\* newStatus || (match.status === 'todo' ? 'done' : 'todo')
TargetStatus(newStatus, match) ==
    IF newStatus # "" THEN newStatus
    ELSE IF match.status = "todo" THEN "done" ELSE "todo"

\* db.update(items).set({status}).where(eq(items.id, id))
UpdateStatus(rows, id, status) ==
    [k \in 1..Len(rows) |->
        IF rows[k].id = id THEN [rows[k] EXCEPT !.status = status] ELSE rows[k]]

\* variant: every row of the table, newest first
AllItems(rows, userId) == Reverse(rows)

\* the caller's rows, newest first
UserItems(rows, userId) == Reverse(SelectSeq(rows, LAMBDA r : r.userId = userId))

\* createTools(userId).toggleItem.execute({identifier, newStatus}) on the rows of
\* the table: the rows left and the ToolResult
toggleItemExecute(rows, userId, identifier, newStatus, fault) ==
    LET userItems == UserItems(rows, userId)
        match == findBestMatch(identifier, userItems, MatchThreshold)
        targetStatus == TargetStatus(newStatus, match)
        failed == Caught("Sorry, I encountered an error updating that item. Please try again.")
    IN  IF fault = "select"
        THEN [rows |-> rows, result |-> failed]
        ELSE IF userItems = <<>>
        THEN [rows |-> rows,
              result |-> ToolResult4(FALSE, [kind |-> "null"],
                  <<"Your wishlist is empty. Add some items first!">>,
                  "No items found")]
        ELSE IF match = NoItem
        THEN [rows |-> rows,
              result |-> ToolResult4(FALSE, [kind |-> "null"],
                  <<"I couldn't find an item matching \"">> \o identifier
                      \o <<"\". Could you be more specific or check the title?">>,
                  "No match found")]
        ELSE IF fault = "update"
        THEN [rows |-> rows, result |-> failed]
        ELSE [rows |-> UpdateStatus(rows, match.id, targetStatus),
              result |-> ToolResult4(TRUE,
                  [kind |-> "toggled", itemId |-> match.id,
                   newStatus |-> targetStatus, title |-> match.title],
                  <<"Marked \"">> \o match.title \o <<"\" as ", targetStatus, "!">>,
                  Absent)]

\* a call of the toggleItem tool that createTools(userId) built
toggleItem(userId, identifier, newStatus, fault) ==
    LET done == toggleItemExecute(items, userId, identifier, newStatus, fault)
    IN  /\ UNCHANGED <<sessionVars, serverVars>>
        /\ UNCHANGED nextId
        /\ items' = done.rows
        /\ lastCall' = Call("toggleItem", done.result)

InitToolsSpec == InitSession /\ InitTools /\ InitServer

AddFaults == {"none", "select", "action", "insert"}

ToggleFaults == {"none", "select", "update"}

NextTools ==
    \/ \E u \in Users : POST(u) /\ UNCHANGED prevToggle
    \/ \E u \in Users, title \in Titles, c \in Categories, fault \in AddFaults :
          addItem(u, title, c, fault) /\ UNCHANGED prevToggle
    \/ \E u \in Users, identifier \in Identifiers, newStatus \in {""} \cup Statuses,
          fault \in ToggleFaults :
          toggleItem(u, identifier, newStatus, fault) /\ UNCHANGED prevToggle

SpecTools == InitToolsSpec /\ [][NextTools]_vars

(* The same table with the history of the latest toggleItem call, to       *)
(* relate two consecutive calls.  Rows come from POST, which inserts any   *)
(* row addItem can insert.                                                 *)

\* what is remembered of a call of toggleItem without newStatus that toggled
Toggled(userId, identifier) ==
    [tool |-> "toggleItem", userId |-> userId, identifier |-> identifier, before |-> items]

NextToggle ==
    \/ \E u \in Users : POST(u) /\ prevToggle' = NoCall
    \/ \E u \in Users, identifier \in Identifiers, newStatus \in {""} \cup Statuses,
          fault \in ToggleFaults :
          /\ toggleItem(u, identifier, newStatus, fault)
          /\ prevToggle' = IF newStatus = "" /\ lastCall'.result.success
                            THEN Toggled(u, identifier)
                            ELSE NoCall

SpecToggle == InitToolsSpec /\ [][NextToggle]_vars

(* The table as listItems reads it: rows, with or without a description   *)
(* or a location, come from POST.                                          *)

ListFaults == {"none", "select"}

\* the description and the location of a row that POST inserts
Details == { <<Null, Null>>, <<JadePalace, Null>>, <<Null, JadePalace>> }

Queries == {<<>>, jade}

NextList ==
    \/ \E u \in Users, d \in Details :
          POSTItem(u, {Dune1, TryJadePalace}, d[1], d[2]) /\ UNCHANGED prevToggle
    \/ \E u \in Users, c \in {"", "movies"}, status \in {"", "done"}, query \in Queries,
          limit \in 0..(MaxItems - 1), fault \in ListFaults :
          listItems(u, c, status, query, limit, fault) /\ UNCHANGED prevToggle

SpecList == InitToolsSpec /\ [][NextList]_vars

(* The three tools of createTools(u), for every u, on one table whose rows *)
(* also come from POST.                                                    *)

NextRegistry ==
    \/ \E u \in Users : POST(u) /\ UNCHANGED prevToggle
    \/ \E u \in Users, title \in Titles, c \in Categories, fault \in AddFaults :
          addItem(u, title, c, fault) /\ UNCHANGED prevToggle
    \/ \E u \in Users, c \in {"", "movies"}, status \in {"", "done"}, query \in Queries,
          limit \in 0..(MaxItems - 1), fault \in ListFaults :
          listItems(u, c, status, query, limit, fault) /\ UNCHANGED prevToggle
    \/ \E u \in Users, identifier \in Identifiers, newStatus \in {""} \cup Statuses,
          fault \in ToggleFaults :
          toggleItem(u, identifier, newStatus, fault) /\ UNCHANGED prevToggle

SpecRegistry == InitToolsSpec /\ [][NextRegistry]_vars

(* The table that only the assistant writes: every row comes from addItem, *)
(* one call after the other.                                               *)

NextSequence ==
    \/ \E u \in Users, title \in Titles, c \in Categories, fault \in AddFaults :
          addItem(u, title, c, fault) /\ UNCHANGED prevToggle
    \/ \E u \in Users, identifier \in Identifiers, newStatus \in {""} \cup Statuses,
          fault \in ToggleFaults :
          toggleItem(u, identifier, newStatus, fault) /\ UNCHANGED prevToggle

SpecSequence == InitToolsSpec /\ [][NextSequence]_vars

(* Tool calls that run at the same time (two sessions, or two requests of  *)
(* one session): execute is cut at its awaits, so the select of a call and *)
(* its insert or update are separate steps on the table, and a step of the *)
(* other call may come in between.  There is no transaction and the table  *)
(* has no unique constraint on titles.  A call goes on with the rows its   *)
(* own select returned (seen).  No store operation throws here.            *)

\* the status the table holds for the row id
StatusOf(rows, id) == rows[CHOOSE k \in 1..Len(rows) : rows[k].id = id].status

\* the state of call p once its select has returned: done is what execute makes of
\* the rows selected, and the call returns there unless a write is still to come
Selected(p, tool, userId, arg, categoryId, done, write) ==
    [pc |-> IF done.result.success THEN write ELSE "returned",
     tool |-> tool, userId |-> userId, arg |-> arg, categoryId |-> categoryId,
     seen |-> items, first |-> \A q \in 1..MaxCalls : calls[q].pc = "idle",
     result |-> done.result, stored |-> ""]

\* addItem.execute up to the return of its select, and the duplicate check
addItemSelect(p, userId, title, categoryId) ==
    /\ calls[p].pc = "idle"
    /\ Len(items) + Cardinality({q \in 1..MaxCalls : calls[q].pc = "insert"}) < MaxItems
    /\ calls' = [calls EXCEPT ![p] =
          Selected(p, "addItem", userId, title, categoryId,
                   addItemExecute(items, nextId, userId, title, categoryId, "none"),
                   "insert")]
    /\ UNCHANGED <<sessionVars, toolVars, request, handle>>

\* the rest of addItem.execute: the insert, and the result with the new key
addItemInsert(p) ==
    /\ calls[p].pc = "insert"
    /\ LET c == calls[p]
           done == addItemExecute(c.seen, nextId, c.userId, c.arg, c.categoryId, "none")
       IN  /\ items' = Append(items, done.rows[Len(done.rows)])
           /\ nextId' = nextId + 1
           /\ calls' = [calls EXCEPT ![p].pc = "returned", ![p].result = done.result]
    /\ UNCHANGED <<sessionVars, lastCall, prevToggle, request, handle>>

\* toggleItem.execute without newStatus up to the return of its select, and the
\* choice of the match and of the target status
toggleItemSelect(p, userId, identifier) ==
    /\ calls[p].pc = "idle"
    /\ calls' = [calls EXCEPT ![p] =
          Selected(p, "toggleItem", userId, identifier, "",
                   toggleItemExecute(items, userId, identifier, "", "none"),
                   "update")]
    /\ UNCHANGED <<sessionVars, toolVars, request, handle>>

\* the rest of toggleItem.execute: the update of the row matched
toggleItemUpdate(p) ==
    /\ calls[p].pc = "update"
    /\ LET data == calls[p].result.data
       IN  /\ items' = UpdateStatus(items, data.itemId, data.newStatus)
           /\ calls' = [calls EXCEPT ![p].pc = "returned",
                                     ![p].stored = StatusOf(items', data.itemId)]
    /\ UNCHANGED <<sessionVars, nextId, lastCall, prevToggle, request, handle>>

InitConcurrent ==
    /\ InitSession
    /\ InitServer
    /\ items \in {<<>>} \cup {<<Row(1, "u1", "movies", Dune1, status)>> : status \in Statuses}
    /\ nextId = Len(items) + 1
    /\ lastCall = NoCall
    /\ prevToggle = NoCall

NextConcurrent ==
    \/ \E p \in 1..MaxCalls, u \in Users, title \in Titles, c \in Categories :
          addItemSelect(p, u, title, c)
    \/ \E p \in 1..MaxCalls : addItemInsert(p)
    \/ \E p \in 1..MaxCalls, u \in Users, identifier \in Identifiers :
          toggleItemSelect(p, u, identifier)
    \/ \E p \in 1..MaxCalls : toggleItemUpdate(p)

SpecConcurrent == InitConcurrent /\ [][NextConcurrent]_vars

----------------------------------------------------------------------------
(* Chat endpoint (app/api/ai/chat/route.ts): POST runs in three tasks, cut *)
(* at its awaits (requireAuth, req.json, getAvailableCategories).  trace   *)
(* lists the collaborators called so far, in call order.                   *)

\* what requireAuth does for the request: it returns a context or throws
AuthOutcomes == {"ok", "AuthError", "Error"}

\* what the body of the request holds
Bodies == {"notJSON", "null", "noMessages", "notArray", "emptyArray", "messages"}

Outcomes == {"ok", "throws"}

Thrown(name, mentionsAuth) == [name |-> name, mentionsAuth |-> mentionsAuth]

\* the error requireAuth throws: AuthError (401) if unauthenticated
requireAuthError(auth) ==
    IF auth = "AuthError" THEN Thrown("AuthError", TRUE) ELSE Thrown("Error", FALSE)

Response(status, error) == [status |-> status, error |-> error]

\* handleAuthError(error): the 401/403 response of the auth middleware
handleAuthError(error) == Response(401, "Unauthorized")

\* the catch block of POST
CatchPOST(error) ==
    IF error.name = "AuthError" \/ error.mentionsAuth
    THEN handleAuthError(error)
    ELSE Response(500, "An unexpected error occurred. Please try again.")

\* variant: any parsed body is taken
AnyMessages(body) == TRUE

\* !(!messages || !Array.isArray(messages)) on the parsed body
ValidMessages(body) == body \in {"emptyArray", "messages"}

\* a request that has reached POST
Arrived(auth, body, categories, model) ==
    [pc |-> "requireAuth", auth |-> auth, body |-> body, categories |-> categories,
     model |-> model, trace |-> <<>>, response |-> Response(0, "")]

Returned(req, trace, response) ==
    [req EXCEPT !.pc = "returned", !.trace = trace, !.response = response]

\* const context = await requireAuth(req)
chatRequireAuth ==
    /\ request.pc = "requireAuth"
    /\ LET trace == Append(request.trace, "requireAuth")
       IN  request' = IF request.auth = "ok"
                      THEN [request EXCEPT !.pc = "json", !.trace = trace]
                      ELSE Returned(request, trace, CatchPOST(requireAuthError(request.auth)))
    /\ UNCHANGED <<sessionVars, toolVars, handle, calls>>

\* const { messages } = await req.json(), and the check of messages
chatJson ==
    /\ request.pc = "json"
    /\ LET trace == Append(request.trace, "json")
       IN  request' =
              IF request.body = "notJSON"
              THEN Returned(request, trace, CatchPOST(Thrown("SyntaxError", FALSE)))
              ELSE IF request.body = "null"
              THEN Returned(request, trace, CatchPOST(Thrown("TypeError", FALSE)))
              ELSE IF ~ValidMessages(request.body)
              THEN Returned(request, trace,
                            Response(400, "Invalid request: messages array required"))
              ELSE [request EXCEPT !.pc = "categories", !.trace = trace]
    /\ UNCHANGED <<sessionVars, toolVars, handle, calls>>

\* from await getAvailableCategories() to the return of the streaming response
chatStream ==
    /\ request.pc = "categories"
    /\ LET trace == Append(request.trace, "getAvailableCategories")
           called == trace \o <<"createTools", "streamText">>
       IN  request' =
              IF request.categories = "throws"
              THEN Returned(request, trace, CatchPOST(Thrown("Error", FALSE)))
              ELSE IF request.model = "throws"
              THEN Returned(request, called, CatchPOST(Thrown("Error", FALSE)))
              ELSE Returned(request, called, Response(200, ""))
    /\ UNCHANGED <<sessionVars, toolVars, handle, calls>>

InitChat ==
    /\ InitSession
    /\ InitTools
    /\ request \in {Arrived(auth, body, categories, model) :
                       auth \in AuthOutcomes, body \in Bodies,
                       categories \in Outcomes, model \in Outcomes}
    /\ handle = Unconnected(TRUE)
    /\ calls = [p \in 1..MaxCalls |-> NotStarted]

NextChat ==
    \/ chatRequireAuth
    \/ chatJson
    \/ chatStream

SpecChat == InitChat /\ [][NextChat]_vars

----------------------------------------------------------------------------
(* Store handle (lib/db: getDb, closeDb).  Connections are numbered from 1 *)
(* in the order postgres() makes them and 0 is null; the db handle that    *)
(* drizzle() wraps around connection c is written c.  open holds the       *)
(* connections made and not yet ended, ending those whose end() was        *)
(* called, closers the closeDb calls suspended at their await.             *)

\* getDb(): synchronous; throws when DATABASE_URL is not set
getDb ==
    /\ handle.db = 0 => handle.made < MaxConnections
    /\ handle' =
          IF handle.db # 0
          THEN [handle EXCEPT !.got = [db |-> handle.db, created |-> FALSE,
                                       openBefore |-> handle.open,
                                       ending |-> handle.db \in handle.ending]]
          ELSE IF ~handle.url
          THEN [handle EXCEPT !.got = NoHandle]
          ELSE LET c == handle.made + 1
               IN  [handle EXCEPT !.connection = c, !.db = c, !.made = c,
                                  !.open = @ \cup {c},
                                  !.got = [db |-> c, created |-> TRUE,
                                           openBefore |-> handle.open,
                                           ending |-> FALSE]]
    /\ UNCHANGED <<sessionVars, toolVars, request, calls>>

\* closeDb() up to its await: connection.end() is called
closeDbEnd ==
    /\ handle.connection # 0
    /\ Len(handle.closers) < MaxClosers
    /\ handle' = [handle EXCEPT !.ending = @ \cup {handle.connection},
                                !.closers = Append(@, handle.connection)]
    /\ UNCHANGED <<sessionVars, toolVars, request, calls>>

\* closeDb() with no connection: it returns at once
closeDbNone ==
    /\ handle.connection = 0
    /\ UNCHANGED vars

\* connection.end() resolves for the closeDb call p, which goes on
closeDbResume(p) ==
    /\ handle' = [handle EXCEPT
                     !.open = @ \ {handle.closers[p]},
                     !.closers = SubSeq(@, 1, p - 1) \o SubSeq(@, p + 1, Len(@)),
                     !.connection = 0,
                     !.db = 0]
    /\ UNCHANGED <<sessionVars, toolVars, request, calls>>

InitDb ==
    /\ InitSession
    /\ InitTools
    /\ request = NoRequest
    /\ handle \in {Unconnected(url) : url \in BOOLEAN}
    /\ calls = [p \in 1..MaxCalls |-> NotStarted]

NextDb ==
    \/ getDb
    \/ closeDbEnd
    \/ closeDbNone
    \/ \E p \in 1..Len(handle.closers) : closeDbResume(p)

SpecDb == InitDb /\ [][NextDb]_vars

----------------------------------------------------------------------------
(* Claims about the Conversation Session *)

InFlightTurns == {i \in 1..Len(turns) : InFlight(turns[i])}

LastTurn == turns[Len(turns)]

\* the messages that follow the user message of the latest turn
AfterUser(t) == SubSeq(messages, t.upos + 1, Len(messages))

\* C1: single-flight guard: in every reachable state at most one turn (one
\* sendMessage request/read loop) is in flight, whatever the sequence of submits,
\* two submits from the same render included.
C1_SingleFlight == Cardinality(InFlightTurns) <= 1

\* C2: every accepted turn ends with exactly one assistant message after its user
\* message, with non-empty content, whatever the outcome of the turn (checked for
\* the latest turn, when it ran alone and the log was not cleared meanwhile).
C2_ExactlyOneAssistantMessage ==
    (turns # <<>> /\ LastTurn.pc = "done" /\ LastTurn.solo /\ ~LastTurn.cleared)
    => /\ Len(AfterUser(LastTurn)) = 1
       /\ AfterUser(LastTurn)[1].role = "assistant"
       /\ AfterUser(LastTurn)[1].content # <<>>

\* C3: clearMessages called in any session state leaves messages empty and the
\* session Idle (isStreaming false).
C3_ClearReturnsToIdle ==
    [][clearMessages => (messages' = <<>> /\ isStreaming' = FALSE)]_vars

\* C4: once clearMessages ran while a turn was in flight, and until the next
\* accepted submit, messages stays empty and no data-changed notification is
\* delivered.
C4_CancelStopsConsumption ==
    closed.on => (messages = <<>> /\ notified = closed.notified)

\* C5: when a turn ends in a transport failure, input holds the text the user
\* submitted for that turn.
C5_DraftPreserved ==
    [][\A i \in 1..Len(turns) :
          (InFlight(turns[i]) /\ turns'[i].pc = "done" /\ turns'[i].outcome = "error")
          => Trim(input') = turns[i].text]_vars

C19_UniqueIds ==
    \A j, k \in 1..Len(messages) : j # k => messages[j].id # messages[k].id

\* message k of the log is the assistant message of a turn that is streaming
Streaming(k) ==
    \E i \in 1..Len(turns) :
        /\ turns[i].pc = "read"
        /\ turns[i].apos = k

\* s is the beginning of t
IsPrefix(s, t) == Len(s) <= Len(t) /\ SubSeq(t, 1, Len(s)) = s

\* C20: the message log is append-only: in every step other than a clear, no
\* message is removed or reordered, and a message of the log stays as it is,
\* except that the content of the assistant message of a turn that is streaming
\* may grow by appending.
C20_AppendOnly ==
    [][~clearMessages
       => /\ Len(messages') >= Len(messages)
          /\ \A k \in 1..Len(messages) :
                \/ messages'[k] = messages[k]
                \/ /\ Streaming(k)
                   /\ messages'[k] = [messages[k] EXCEPT !.content = messages'[k].content]
                   /\ IsPrefix(messages[k].content, messages'[k].content)]_vars

\* the frames of the turn received so far, from the lines that are complete
RECURSIVE Count(_, _)
Count(fs, units) ==
    IF fs = <<>> \/ Len(Encode(Head(fs))) + 1 > units THEN 0
    ELSE 1 + Count(Tail(fs), units - Len(Encode(Head(fs))) - 1)

Received(t) == SubSeq(t.frames, 1, Count(t.frames, Len(Wire(t.frames)) - Len(t.rest)))

\* C23: tool results keep their structure in the session: when a tool-result
\* frame has arrived, the assistant message of the turn has a ToolInvocation with
\* the toolCallId of the frame whose result holds the success flag, the message
\* and the items of the frame (the items of a listItems result included).
C23_ToolResultsKept ==
    \A i \in 1..Len(turns) :
        (turns[i].pc \in {"read", "done"} /\ turns[i].aid # 0)
        => \A k \in 1..Len(Received(turns[i])) :
              LET f == Received(turns[i])[k]
                  kept == messages[turns[i].apos].toolInvocations
              IN  f.type = "tool-result"
                  => \E j \in 1..Len(kept) :
                        /\ kept[j].toolCallId = f.toolCallId
                        /\ kept[j].toolName = f.toolName
                        /\ kept[j].result.success = f.success
                        /\ kept[j].result.message = f.message
                        /\ kept[j].result.data.items = f.items

\* the error messages in the log after the user message of the turn
ErrorsOf(t) == {j \in (t.upos + 1)..Len(messages) : messages[j].error}

\* C24: a malformed stream yields one visible error: when a line that is not
\* valid JSON, or a frame that is not a recognised one, was received in a turn,
\* the turn ends with one error message in the log and the session Idle.
C24_MalformedYieldsError ==
    \A i \in 1..Len(turns) :
        (/\ turns[i].pc = "done"
         /\ \E k \in 1..Len(Received(turns[i])) :
               Received(turns[i])[k].type \in {"malformed", "error"})
        => (Cardinality(ErrorsOf(turns[i])) = 1 /\ ~isStreaming)

History(msgs) ==
    [j \in 1..Len(msgs) |-> [role |-> msgs[j].role, content |-> msgs[j].content]]

Mutations(t) ==
    {k \in 1..Len(Received(t)) :
        LET f == Received(t)[k]
        IN  f.type = "tool-result" /\ f.toolName \in {"addItem", "toggleItem"} /\ f.success}

\* onItemModified has been called once for each of them
OnItemModifiedPerMutation ==
    \A i \in 1..Len(turns) : notified = Cardinality(Mutations(turns[i]))

\* C30: data-changed notification: within a turn the refresh callbacks
\* (onItemModified of the hook, onItemAdded of the modal) are invoked once for
\* each tool-result frame of addItem or toggleItem with success true, after that
\* frame (so after the commit), and never for a listItems result, a result with
\* success false or a turn in which no tool ran.
C30_DataChangedNotification ==
    /\ OnItemModifiedPerMutation
    /\ \A i \in 1..Len(turns) : turns[i].timer = "fired" => Mutations(turns[i]) # {}

----------------------------------------------------------------------------
(* Claims about the Tool Registry *)

Indices(rows) == 1..Len(rows)

\* the caller's todo rows of the category whose title scores >= 0.8 against title
Duplicates(userId, title, categoryId) ==
    {k \in Indices(items) :
        /\ items[k].userId = userId
        /\ items[k].categoryId = categoryId
        /\ items[k].status = "todo"
        /\ ScoreGeq(Similarity(title, items[k].title), DuplicateThreshold)}

\* C8: duplicate guard of addItem: if the caller owns at least one todo item of the
\* requested category whose title scores >= 0.8 against the new title (and the
\* select of the existing items returns), addItem returns success:false with
\* data.similarItems holding every such item, and the table is unchanged.
C8_DuplicateGuard ==
    [][\A u \in Users, title \in Titles, c \in Categories, fault \in AddFaults \ {"select"} :
          (lastCall'.tool = "addItem" /\ Duplicates(u, title, c) # {}
             /\ addItem(u, title, c, fault))
          => /\ ~lastCall'.result.success
             /\ lastCall'.result.data.kind = "similarItems"
             /\ {x.id : x \in {lastCall'.result.data.similarItems[k] :
                                  k \in Indices(lastCall'.result.data.similarItems)}}
                  = {items[k].id : k \in Duplicates(u, title, c)}
             /\ items' = items]_vars

C8_Witness ==
    /\ lastCall.tool = "addItem"
    /\ ~lastCall.result.success
    /\ lastCall.result.data.kind = "similarItems"
    /\ Len(items) = 2
    /\ items[1].title = Dune1 /\ items[2].title = Dune2
    /\ lastCall.result.data.similarItems =
          <<[id |-> items[1].id, title |-> Dune1], [id |-> items[2].id, title |-> Dune2]>>

\* the caller's rows of whose title the identifier is a fragment, case ignored
FragmentOf(userId, identifier) ==
    {k \in Indices(items) :
        /\ items[k].userId = userId
        /\ Contains(ToLowerCase(items[k].title), ToLowerCase(identifier))}

Opposite(status) == IF status = "todo" THEN "done" ELSE "todo"

\* C9: toggleItem resolves a partial title: an identifier that is a fragment of
\* exactly one of the caller's titles (as 'jade' of 'Try Jade Palace') toggles that
\* item and returns success:true with a message naming its title and new status.
C9_PartialTitleResolves ==
    [][\A u \in Users, identifier \in Identifiers :
          (lastCall'.tool = "toggleItem" /\ Cardinality(FragmentOf(u, identifier)) = 1
             /\ toggleItem(u, identifier, "", "none"))
          => \E k \in FragmentOf(u, identifier) :
                /\ lastCall'.result.success
                /\ lastCall'.result.data.itemId = items[k].id
                /\ items'[k].status = Opposite(items[k].status)
                /\ Contains(lastCall'.result.message, items[k].title)
                /\ Contains(lastCall'.result.message, <<items'[k].status>>)]_vars

\* the caller's rows whose title scores >= 0.6 against the identifier
Matching(userId, identifier) ==
    {k \in Indices(items) :
        /\ items[k].userId = userId
        /\ ScoreGeq(Similarity(identifier, items[k].title), MatchThreshold)}

\* C10: toggleItem flips once per call: when the identifier matches an item of the
\* caller (and the store does not fail), the matched item's status becomes
\* newStatus if given, else the opposite of its stored status, and nothing else in
\* the table changes; two consecutive calls with the same identifier and no
\* newStatus leave the table as it was before the first.
C10_ToggleFlipsOnce ==
    [][\A u \in Users, identifier \in Identifiers, newStatus \in {""} \cup Statuses :
          (lastCall'.tool = "toggleItem" /\ Matching(u, identifier) # {}
             /\ toggleItem(u, identifier, newStatus, "none"))
          => /\ \E k \in Matching(u, identifier) :
                   /\ items' = [items EXCEPT ![k].status =
                                    IF newStatus # "" THEN newStatus
                                    ELSE Opposite(items[k].status)]
                   /\ lastCall'.result.success
                   /\ lastCall'.result.data.itemId = items[k].id
                   /\ lastCall'.result.data.newStatus = items'[k].status
             /\ (newStatus = "" /\ prevToggle # NoCall /\ prevToggle.userId = u
                    /\ prevToggle.identifier = identifier)
                => items' = prevToggle.before]_vars

C10_Witness ==
    /\ prevToggle # NoCall
    /\ Len(items) = 2
    /\ items[1].userId = prevToggle.userId /\ items[2].userId = prevToggle.userId
    /\ items[1].title = Dune1 /\ items[2].title = Dune2
    /\ prevToggle.identifier = Dune1
    /\ lastCall.result.data.itemId = items[1].id
    /\ prevToggle.before[1].status = "done" /\ items[1].status = "todo"
    /\ prevToggle.before[2] = items[2]

\* the rows of the table that listItems is to return for these arguments, as a set
Listed(userId, categoryId, status, query) ==
    {k \in Indices(items) :
        /\ items[k].userId = userId
        /\ (categoryId # "" => items[k].categoryId = categoryId)
        /\ items[k].status = (IF status = "" THEN "todo" ELSE status)
        /\ (query # <<>> =>
               \/ Contains(ToLowerCase(items[k].title), ToLowerCase(query))
               \/ Contains(ToLowerCase(items[k].description), ToLowerCase(query))
               \/ Contains(ToLowerCase(items[k].location), ToLowerCase(query)))}

\* returned is the first min(n, m) of the m rows of the set, newest first
NewestFirst(returned, rowSet, n) ==
    /\ Len(returned) = Min2(n, Cardinality(rowSet))
    /\ \A j \in 1..Len(returned) :
          \E k \in rowSet :
             /\ returned[j].id = items[k].id
             /\ returned[j].title = items[k].title
             /\ returned[j].status = items[k].status
             /\ returned[j].createdAt = items[k].createdAt
    /\ \A j \in 1..(Len(returned) - 1) : returned[j].createdAt > returned[j + 1].createdAt
    /\ \A k \in rowSet :
          \/ \E j \in 1..Len(returned) : returned[j].id = items[k].id
          \/ \A j \in 1..Len(returned) : returned[j].createdAt > items[k].createdAt

\* C11: listItems without filters returns exactly the caller's todo items, newest
\* created first, truncated to the default limit of 50: no done item and no item
\* of another caller is in the result.
C11_ListDefault ==
    [][\A u \in Users :
          (lastCall'.tool = "listItems" /\ listItems(u, "", "", <<>>, 0, "none"))
          => /\ lastCall'.result.success
             /\ lastCall'.result.data.count = Len(lastCall'.result.data.items)
             /\ NewestFirst(lastCall'.result.data.items, Listed(u, "", "", <<>>), 50)
             /\ \A j \in 1..Len(lastCall'.result.data.items) :
                   /\ lastCall'.result.data.items[j].status = "todo"
                   /\ \A k \in Indices(items) :
                         items[k].id = lastCall'.result.data.items[j].id
                         => items[k].userId = u]_vars

\* the caller of the witness owns a todo and a done row, the other user a todo row
C11_Witness ==
    /\ lastCall.tool = "listItems"
    /\ Len(items) = MaxItems
    /\ items[1].userId # items[2].userId
    /\ items[1].status = "todo" /\ items[2].status = "todo"
    /\ lastCall.result.success
    /\ lastCall.result.data.count = 1
    /\ lastCall.result.data.items[1].id = items[2].id
    /\ Contains(lastCall.result.message, <<"You have ", "1", " ", "todo">>)

\* C12: listItems with a text query filters all of the caller's items that pass
\* the category/status filter and only then truncates: the result is the first
\* min(limit, m) items, newest first, of the m items whose title, description or
\* location contains the query, case ignored; it is non-empty whenever a matching
\* item exists.
C12_FilterThenTruncate ==
    [][\A u \in Users, c \in {""} \cup Categories, status \in {""} \cup Statuses,
          limit \in 1..MaxItems :
          (lastCall'.tool = "listItems" /\ listItems(u, c, status, jade, limit, "none"))
          => /\ lastCall'.result.success
             /\ NewestFirst(lastCall'.result.data.items, Listed(u, c, status, jade), limit)
             /\ (Listed(u, c, status, jade) # {} => lastCall'.result.data.items # <<>>)]_vars

\* C27: near-duplicate freedom over sequences: from the empty table, after any
\* sequential series of addItem and toggleItem calls no user has two todo items of
\* the same category whose titles score >= 0.8 against each other.
C27_NoNearDuplicates ==
    \A j, k \in Indices(items) :
        (/\ j < k
         /\ items[j].userId = items[k].userId
         /\ items[j].categoryId = items[k].categoryId
         /\ items[j].status = "todo" /\ items[k].status = "todo")
        => ~ScoreGeq(Similarity(items[j].title, items[k].title), DuplicateThreshold)

\* the rows of a user, and the rows of everybody else, in table order
Own(rows, userId) == SelectSeq(rows, LAMBDA r : r.userId = userId)

Others(rows, userId) == SelectSeq(rows, LAMBDA r : r.userId # userId)

\* the ids of the items a ToolResult returns
ReturnedIds(result) ==
    CASE result.data.kind = "similarItems" ->
            {result.data.similarItems[k].id : k \in 1..Len(result.data.similarItems)}
      [] result.data.kind = "items" ->
            {result.data.items[k].id : k \in 1..Len(result.data.items)}
      [] result.data.kind \in {"itemId", "toggled"} -> {result.data.itemId}
      [] OTHER -> {}

\* what a call of a tool of createTools(userId) may do to the table and return:
\* done is the call on the table, alone the call on the caller's rows only
Isolated(userId, done, alone) ==
    /\ Others(done.rows, userId) = Others(items, userId)
    /\ \A k \in Indices(done.rows) :
          (k > Len(items) \/ done.rows[k] # items[k]) => done.rows[k].userId = userId
    /\ ReturnedIds(done.result) \subseteq
          {done.rows[k].id : k \in {j \in Indices(done.rows) : done.rows[j].userId = userId}}
    /\ done.result = alone.result

\* C13: caller isolation: in every reachable state of the table, every call of
\* addItem, listItems or toggleItem of createTools(u), with any arguments and any
\* store failure, inserts and updates only rows with userId = u, returns only
\* items owned by u, leaves the rows of the other users as they were, and returns
\* what it returns on the table without the rows of the other users.
C13_CallerIsolation ==
    \A u \in Users :
        /\ \A title \in Titles, c \in Categories, fault \in AddFaults :
              Isolated(u, addItemExecute(items, nextId, u, title, c, fault),
                          addItemExecute(Own(items, u), nextId, u, title, c, fault))
        /\ \A c \in {""} \cup Categories, status \in {""} \cup Statuses, query \in Queries,
              limit \in 0..MaxItems, fault \in ListFaults :
              Isolated(u, [rows |-> items,
                           result |-> listItemsExecute(items, u, c, status, query, limit, fault)],
                          [rows |-> Own(items, u),
                           result |-> listItemsExecute(Own(items, u), u, c, status, query,
                                                       limit, fault)])
        /\ \A identifier \in Identifiers, newStatus \in {""} \cup Statuses,
              fault \in ToggleFaults :
              Isolated(u, toggleItemExecute(items, u, identifier, newStatus, fault),
                          toggleItemExecute(Own(items, u), u, identifier, newStatus, fault))

\* a user toggled the older of two rows with the same title; the newer one is
\* another user's and stays as it was
C13_Witness ==
    /\ Len(items) = 2
    /\ items[1].userId # items[2].userId
    /\ items[1].title = items[2].title
    /\ items[1].status = "done" /\ items[2].status = "todo"
    /\ lastCall.tool = "toggleItem"
    /\ lastCall.result.success
    /\ lastCall.result.data.itemId = items[1].id
    /\ lastCall.result.data.newStatus = "done"

Tools == {"addItem", "listItems", "toggleItem"}

\* C14: ToolResult invariant: every value returned by addItem, listItems or
\* toggleItem, on every path (success, duplicate detected, empty wishlist, no
\* match, store exception), has a message, and has an error whenever success is
\* false.
C14_ToolResultInvariant ==
    lastCall.tool \in Tools
    => /\ lastCall.result.message # <<>>
       /\ (~lastCall.result.success => lastCall.result.error # Absent)

\* the store threw in a call of addItem on a table that holds rows
C14_Witness ==
    /\ lastCall.tool = "addItem"
    /\ ~lastCall.result.success
    /\ lastCall.result.data.kind = "null"
    /\ lastCall.result.error = "error.message"
    /\ Len(items) = MaxItems

\* C15: tool failures are returned as data: in every reachable state of the
\* table, a call of addItem, listItems or toggleItem in which a store operation
\* fails (getDb or the select, the action lookup, the insert, the update) returns
\* a ToolResult with success false and an error, and leaves the table unchanged.
C15_FailuresAreData ==
    \A u \in Users :
        /\ \A title \in Titles, c \in Categories, fault \in AddFaults \ {"none"} :
              LET done == addItemExecute(items, nextId, u, title, c, fault)
              IN  /\ ~done.result.success
                  /\ done.result.error # Absent
                  /\ done.result.message # <<>>
                  /\ done.rows = items
        /\ \A c \in {""} \cup Categories, status \in {""} \cup Statuses, query \in Queries,
              limit \in 0..MaxItems, fault \in ListFaults \ {"none"} :
              LET result == listItemsExecute(items, u, c, status, query, limit, fault)
              IN  /\ ~result.success
                  /\ result.error # Absent
                  /\ result.message # <<>>
        /\ \A identifier \in Identifiers, newStatus \in {""} \cup Statuses,
              fault \in ToggleFaults \ {"none"} :
              LET done == toggleItemExecute(items, u, identifier, newStatus, fault)
              IN  /\ ~done.result.success
                  /\ done.result.error # Absent
                  /\ done.result.message # <<>>
                  /\ done.rows = items

\* the update threw in a call of toggleItem that had found its item
C15_Witness ==
    /\ lastCall.tool = "toggleItem"
    /\ ~lastCall.result.success
    /\ lastCall.result.error = "error.message"
    /\ lastCall.result.message =
          <<"Sorry, I encountered an error updating that item. Please try again.">>
    /\ Len(items) = 1
    /\ items[1].title = TryJadePalace
    /\ items[1].status = "todo"

----------------------------------------------------------------------------
(* Claims about the Similarity Engine *)

\* C16: reflexivity of the score: for every string s, the empty string and the
\* strings of white space included, calculateSimilarity(s, s) = 1.0.
C16_Reflexive ==
    (lastCall.done /\ lastCall.str1 = lastCall.str2) => lastCall.score = Score(1, 1)

\* the call the reverse of the last call would have been
Swapped ==
    [lastCall EXCEPT !.str1 = lastCall.str2, !.str2 = lastCall.str1,
                     !.score = calculateSimilarity(lastCall.str2, lastCall.str1)]

\* C17: symmetry of the score: for all strings a and b, empty ones and ones that
\* differ only in case or surrounding white space included,
\* calculateSimilarity(a, b) = calculateSimilarity(b, a).
C17_Symmetric ==
    lastCall.done
    => /\ lastCall.score = calculateSimilarity(lastCall.str2, lastCall.str1)
       /\ ScoreGeq(lastCall.score, Swapped.score) /\ ScoreGeq(Swapped.score, lastCall.score)

\* strings of different lengths that differ in case and in surrounding white space
C17_Witness ==
    /\ lastCall.done
    /\ lastCall.str1 = <<" ", "B">>
    /\ lastCall.str2 = <<"a">>
    /\ lastCall.score = Score(0, 1)

\* the score of candidate k of the last call of findBestMatch
ScoreOf(k) == calculateSimilarity(lastCall.query, lastCall.candidates[k].title)

\* of the candidates of the last call that qualify, the first with the highest score
Best(qualifying) ==
    {k \in qualifying :
        /\ \A j \in 1..Len(lastCall.candidates) : ScoreGeq(ScoreOf(k), ScoreOf(j))
        /\ \A j \in 1..(k - 1) : ~ScoreGeq(ScoreOf(j), ScoreOf(k))}

\* the last call returned none if no candidate qualifies, else the first of the
\* candidates with the highest score
ReturnsFirstBest(qualifying) ==
    IF qualifying # {}
    THEN \E k \in Best(qualifying) : lastCall.match = lastCall.candidates[k]
    ELSE lastCall.match = NoItem

ClearsThreshold ==
    {k \in 1..Len(lastCall.candidates) : ScoreGeq(ScoreOf(k), lastCall.threshold)}

\* C18 (as stated): findBestMatch returns none exactly when no candidate's score
\* is >= threshold; otherwise it returns a candidate whose score is the maximum
\* over all candidates, the first one in the caller's order among those tied.
C18_BestMatch_Stated ==
    lastCall.done => ReturnsFirstBest(ClearsThreshold)

ClearsThresholdAboveZero ==
    {k \in ClearsThreshold : ScoreGt(ScoreOf(k), Score(0, 1))}

\* C18 (amended): findBestMatch returns none exactly when no candidate has a
\* score that is > 0 and >= threshold; otherwise it returns a candidate whose score
\* is the maximum over all candidates, the first one in the caller's order among
\* those tied.
C18_BestMatch ==
    lastCall.done => ReturnsFirstBest(ClearsThresholdAboveZero)

\* two candidates tied at the highest score after one with a lower score that
\* clears the threshold too: the first of the two is returned
C18_Witness ==
    /\ lastCall.done
    /\ lastCall.threshold = Score(1, 2)
    /\ Len(lastCall.candidates) = 3
    /\ lastCall.candidates[1].title = <<"a">>
    /\ lastCall.candidates[2].title = <<"A", "B">>
    /\ lastCall.candidates[3].title = <<"a", "b">>
    /\ lastCall.match = lastCall.candidates[2]

\* two calls of the tool that have both returned
BothReturned(p, q, tool) ==
    /\ p # q
    /\ calls[p].pc = "returned" /\ calls[q].pc = "returned"
    /\ calls[p].tool = tool /\ calls[q].tool = tool
    /\ calls[p].userId = calls[q].userId

\* C28: duplicate guard under interleaving: of two addItem calls of one caller
\* for one category whose titles score >= 0.8 against each other, each doing
\* its select and then its insert as separate store steps, at most one inserts
\* a row; the other returns success false.
C28_DuplicateGuardInterleaved ==
    \A p, q \in 1..MaxCalls :
        (/\ BothReturned(p, q, "addItem")
         /\ calls[p].categoryId = calls[q].categoryId
         /\ ScoreGeq(Similarity(calls[p].arg, calls[q].arg), DuplicateThreshold))
        => ~(calls[p].result.success /\ calls[q].result.success)

\* C29: toggle under interleaving: when two toggleItem calls without newStatus
\* that resolve to the same item have both run, each reading the caller's items
\* and then updating as a separate store step, the status of the item is the
\* one it had before the first of them (each call flips once), and the newStatus
\* each call reports is the status stored right after its update.
C29_ToggleInterleaved ==
    \A p, q \in 1..MaxCalls :
        (/\ BothReturned(p, q, "toggleItem")
         /\ calls[p].result.success /\ calls[q].result.success
         /\ calls[p].result.data.itemId = calls[q].result.data.itemId
         /\ calls[p].first)
        => /\ StatusOf(items, calls[p].result.data.itemId)
                = StatusOf(calls[p].seen, calls[p].result.data.itemId)
           /\ calls[p].stored = calls[p].result.data.newStatus
           /\ calls[q].stored = calls[q].result.data.newStatus

----------------------------------------------------------------------------
(* Claims about the chat endpoint *)

Called(name) == \E k \in 1..Len(request.trace) : request.trace[k] = name

\* C21: the chat endpoint rejects before contacting the model: if requireAuth
\* fails, or the body has no messages array, POST returns an error response and
\* neither createTools nor streamText is called for the request; requireAuth is
\* called first, and the body is not read unless it returned.
C21_RejectsBeforeModel ==
    /\ (Called("createTools") \/ Called("streamText"))
       => (request.auth = "ok" /\ request.body \in {"emptyArray", "messages"})
    /\ (request.pc = "returned"
          /\ (request.auth # "ok" \/ request.body \notin {"emptyArray", "messages"}))
       => request.response.status >= 400
    /\ request.trace # <<>> => request.trace[1] = "requireAuth"
    /\ Called("json") => request.auth = "ok"
    /\ (request.pc = "returned" /\ request.auth = "AuthError")
       => request.response.status = 401

\* an authenticated request whose body has a messages field that is no array
C21_Witness ==
    /\ request.pc = "returned"
    /\ request.auth = "ok"
    /\ request.body = "notArray"
    /\ request.trace = <<"requireAuth", "json">>
    /\ request.response.status = 400

----------------------------------------------------------------------------
(* Claims about the store handle *)

\* C22: store handle lifecycle: across any interleaving of getDb and closeDb
\* calls, at most one connection is open at a time; getDb makes a connection only
\* when none exists and otherwise returns the existing handle; connection and db
\* are both set or both null whenever no call is in progress; and getDb never
\* hands out a handle whose connection closeDb has already started to end.
C22_HandleLifecycle ==
    /\ Cardinality(handle.open) <= 1
    /\ handle.got.created => handle.got.openBefore = {}
    /\ handle.closers = <<>> => (handle.connection = 0 <=> handle.db = 0)
    /\ ~handle.got.ending

----------------------------------------------------------------------------
(* Claims about the Stream Decoder *)

\* what a frame contributes to the assistant message
FrameText(f) ==
    IF f.type = "text-delta" THEN f.text
    ELSE IF f.type = "tool-result" THEN f.message
    ELSE <<>>

RECURSIVE Expected(_)
Expected(fs) == IF fs = <<>> THEN <<>> ELSE FrameText(Head(fs)) \o Expected(Tail(fs))

====
